---- MODULE Spec2Model ----
(***************************************************************************)
(* Model of the caching and resilience core of the HTTP client: the        *)
(* LRU/TTL cache (lib/cache/lru-cache), the request deduplicator           *)
(* (lib/cache/deduplicator) and the circuit breaker (lib/fetch/retry).     *)
(* Each component has its own specification; the variables of the other    *)
(* components stay at their initial values.                                *)
(***************************************************************************)
EXTENDS Integers, Sequences, FiniteSets, TLC

VARIABLES
    now,        \* Date.now(), advanced by Tick
    cfg,        \* createLRUCache's configuration, fixed at construction
    cache,      \* the Map of the LRU cache, in insertion order
    stats,      \* hits, misses, staleHits, evictions
    ret,        \* what the last cache operation was and what it returned
    stored,     \* per key, the staleUntil of the entry last stored and not deleted, evicted or cleared
    touched,    \* keys in the cache, ordered by their last successful set or get hit
    placed,     \* keys in the cache, ordered by their first set since absent or last get hit
    fifo,       \* the distinct keys set since the cache was empty, while nothing else was called
    tally,      \* since creation or the last clear: get calls made, entries evicted by set
    inFlight,   \* the deduplicator's ledger: key -> id of the registered request
    reqs,       \* the requests dedupe has seen: key, executor state, outcome
    dret,       \* what the last deduplicator step was
    failures,   \* CircuitBreaker.failures
    lastFailureTime, \* CircuitBreaker.lastFailureTime
    state,      \* CircuitBreaker.state
    breaker,    \* CircuitBreaker's failureThreshold and recoveryTimeout
    calls,      \* the execute calls whose operation is running
    consec,     \* failure results recorded since the last recorded success or reset()
    cret,       \* what the last circuit breaker step was
    revalidating, \* createSWRCache's set of keys under background revalidation
    bg,         \* per key, the background revalidate() calls that have not settled
    fg,         \* per key, the revalidate() calls awaited by a caller that have not settled
    sret,       \* what the last step of the SWR cache was
    strategy,   \* createRetryStrategy's configuration
    rs,         \* the RetryStrategy.execute call under way: where it is, its locals, its history
    retryCfg,   \* withRetry's configuration: maxAttempts, and whether shouldRetry is given
    wr,         \* the withRetry call under way: where it is, its locals, its history
    client,     \* the client's cache configuration: mode, whether varyHeaders is non-empty
    tags,       \* the tag registry: tagToKeys, keyToTags, allKeys
    fetching,   \* the cacheable requests whose executeCoreRequest has not returned
    storedTags, \* per cache key, the tags of the request whose response is cached under it
    noStoreKeys, \* the cache keys whose cached response carries Cache-Control: no-store
    clret,      \* what the last step of the client was
    bo,         \* the calculateBackoff call: its arguments, Math.random()'s draw, its result
    pm          \* the matchGlobPattern call: its arguments and its result

cacheVars == <<cfg, cache, stats, ret, stored, touched, placed, fifo, tally>>
dedupVars == <<inFlight, reqs, dret>>
breakerVars == <<failures, lastFailureTime, state, breaker, calls, consec, cret>>
swrVars == <<revalidating, bg, fg, sret>>
strategyVars == <<strategy, rs>>
withRetryVars == <<retryCfg, wr>>
clientVars == <<client, tags, fetching, storedTags, noStoreKeys, clret>>
functionVars == <<bo, pm>>
vars == <<now, cacheVars, dedupVars, breakerVars, swrVars, strategyVars, withRetryVars,
          clientVars, functionVars>>

\* What the steps of one component leave alone
notCacheVars == <<dedupVars, breakerVars, swrVars, strategyVars, withRetryVars, clientVars,
    functionVars>>
notDedupVars == <<now, cacheVars, breakerVars, swrVars, strategyVars, withRetryVars, clientVars,
    functionVars>>
notBreakerVars == <<cacheVars, dedupVars, swrVars, strategyVars, withRetryVars, clientVars,
    functionVars>>
notSwrVars == <<dedupVars, breakerVars, strategyVars, withRetryVars, clientVars,
    functionVars>>
notStrategyVars == <<now, cacheVars, dedupVars, breakerVars, swrVars, withRetryVars, clientVars,
    functionVars>>
notWithRetryVars == <<now, cacheVars, dedupVars, breakerVars, swrVars, strategyVars, clientVars,
    functionVars>>
notClientVars == <<dedupVars, breakerVars, swrVars, strategyVars, withRetryVars, functionVars>>
notFunctionVars ==
    <<now, cacheVars, dedupVars, breakerVars, swrVars, strategyVars, withRetryVars, clientVars>>

(***************************************************************************)
(* Bounds of the model.                                                    *)
(***************************************************************************)
MaxTime == 3        \* the clock runs from 0 to MaxTime
MaxEvents == 2      \* counted cache events (hits, misses, stale hits, evictions) between two clears

\* Cache keys as generateCacheKey builds them (method|url), and response bodies
Keys == {"GET|/a", "GET|/b"}
LruKeys == {"GET|/a", "GET|/b", "GET|/c", "GET|/d"}
Bodies == {"b1", "b2"}
TtlOptions == {0, 2}    \* 0 stands for "no options.ttl": the default ttl applies

(***************************************************************************)
(* LRU cache with TTL                                                      *)
(***************************************************************************)
NoRet == [op |-> "none", key |-> "", value |-> "", data |-> "", cached |-> FALSE,
          cacheHit |-> "", evicted |-> "", success |-> TRUE, bumped |-> {}, keys |-> {},
          size |-> 0]

CacheKeys(c) == {c[i].key : i \in 1..Len(c)}
EntryOf(c, k) == c[CHOOSE i \in 1..Len(c) : c[i].key = k]
Without(c, k) == SelectSeq(c, LAMBDA e : e.key # k)
WithoutKey(s, k) == SelectSeq(s, LAMBDA x : x # k)
HeadOr(s) == IF Len(s) = 0 THEN "" ELSE Head(s)
Restrict(f, dom) == [k \in dom |-> f[k]]

\* `now > entry.staleUntil`: completely expired, beyond the stale window
IsExpiredAtStaleUntil(e, t) == t >= e.staleUntil
IsExpired(e, t) == t > e.staleUntil

\* `now <= entry.timestamp + entry.ttl`
IsFreshBeforeTtl(e, t) == t < e.timestamp + e.ttl
IsFresh(e, t) == t <= e.timestamp + e.ttl

\* updateResponseMeta on a stored result; set stores successful results only, so the
\* `!result.success` branch is never taken on a cached result
UpdateResponseMeta(r, body, hit) ==
    [r EXCEPT !.value = "result", !.data = body, !.cached = TRUE, !.cacheHit = hit]

\* `if (firstKey)`: the empty string is falsy
Truthy(k) == k # ""

NoStats == [hits |-> 0, misses |-> 0, staleHits |-> 0, evictions |-> 0]
BumpTwice(field) == [stats EXCEPT ![field] = @ + 2]
\* `hits += 1`, `misses += 1`, `staleHits += 1`, `evictions += 1`
Bump(field) == [stats EXCEPT ![field] = @ + 1]
Events(st) == st.hits + st.misses + st.staleHits + st.evictions
NoFifo == [ok |-> FALSE, keys |-> <<>>]
NoTally == [gets |-> 0, evicted |-> 0]
\* the counters whose value in st differs from the current one
Bumped(st) == {f \in DOMAIN stats : st[f] # stats[f]}

InitCacheWith(sizes, windows) ==
    /\ cfg \in [maxEntries : sizes, ttl : {1}, staleWindow : windows]
    /\ cache = <<>>
    /\ stats = NoStats
    /\ ret = NoRet
    /\ stored = [k \in {} |-> 0]
    /\ touched = <<>>
    /\ placed = <<>>
    /\ fifo = [ok |-> TRUE, keys |-> <<>>]
    /\ tally = NoTally

Tick ==
    /\ now < MaxTime
    /\ now' = now + 1

\* get: miss, hard expiry, fresh hit or stale hit
CacheGet(k) ==
    /\ Events(stats) < MaxEvents
    /\ IF k \notin CacheKeys(cache)
       THEN /\ stats' = Bump("misses")
            /\ ret' = [NoRet EXCEPT !.op = "get", !.key = k, !.value = "null",
                                    !.bumped = Bumped(stats')]
            /\ UNCHANGED <<cache, touched, placed>>
       ELSE LET e == EntryOf(cache, k) IN
            IF IsExpired(e, now)
            THEN /\ cache' = Without(cache, k)
                 /\ stats' = Bump("misses")
                 /\ ret' = [NoRet EXCEPT !.op = "get", !.key = k, !.value = "null",
                                    !.bumped = Bumped(stats')]
                 /\ touched' = WithoutKey(touched, k)
                 /\ placed' = WithoutKey(placed, k)
            ELSE /\ cache' = Append(Without(cache, k), e)
                 /\ stats' = IF IsFresh(e, now) THEN Bump("hits") ELSE Bump("staleHits")
                 /\ ret' = UpdateResponseMeta([NoRet EXCEPT !.op = "get", !.key = k,
                                                            !.bumped = Bumped(stats')], e.data,
                                              IF IsFresh(e, now) THEN "fresh" ELSE "stale")
                 /\ touched' = Append(WithoutKey(touched, k), k)
                 /\ placed' = Append(WithoutKey(placed, k), k)
    /\ fifo' = NoFifo
    /\ tally' = [tally EXCEPT !.gets = @ + 1]
    /\ UNCHANGED <<cfg, stored, now>>

\* set: `options?.ttl ?? defaultTtl`
EntryTtl(opt) == IF opt = 0 THEN cfg.ttl ELSE opt

\* set: the key evicted from Map m, "" when none is
Victim(m) ==
    IF Len(m) >= cfg.maxEntries /\ Len(m) > 0 /\ Truthy(m[1].key) THEN m[1].key ELSE ""

\* set: Map.set keeps the place of a key the Map holds, and appends a new one
MapSetMovingToEnd(m, e) == Append(Without(m, e.key), e)
MapSet(m, e) ==
    IF e.key \in CacheKeys(m)
    THEN [i \in 1..Len(m) |-> IF m[i].key = e.key THEN e ELSE m[i]]
    ELSE Append(m, e)

StaleUntilWithoutTtl(t, ttl) == t + cfg.staleWindow

\* set: `staleUntil: now + entryTtl + staleWindow`
StaleUntil(t, ttl) == t + ttl + cfg.staleWindow

\* set, called with a successful result (ok) or a failed one
\* what a result holds: the response body of a success, the error of a failure
ResultData(ok, body) == IF ok THEN body ELSE "error"

StoresEveryResult(ok) == FALSE

\* set: `if (!result.success) return`
IgnoresResult(ok) == ~ok

CacheSet(k, ok, body, opt) ==
    /\ IF IgnoresResult(ok)
       THEN /\ ret' = [NoRet EXCEPT !.op = "set", !.key = k, !.value = "ignored",
                                    !.success = ok]
            /\ UNCHANGED <<cache, stats, stored, touched, placed, fifo, tally>>
       ELSE LET v == Victim(cache)
                gone == IF v = "" THEN {} ELSE {v}
                afterEvict == IF v = "" THEN cache ELSE Without(cache, v)
                e == [key |-> k, data |-> ResultData(ok, body), timestamp |-> now,
                      ttl |-> EntryTtl(opt),
                      staleUntil |-> StaleUntil(now, EntryTtl(opt))]
            IN  /\ v # "" => Events(stats) < MaxEvents
                /\ cache' = MapSet(afterEvict, e)
                /\ stats' = IF v = "" THEN stats ELSE Bump("evictions")
                /\ ret' = [NoRet EXCEPT !.op = "set", !.key = k, !.value = "stored",
                                        !.evicted = v, !.success = ok]
                /\ stored' = LET dom == ((DOMAIN stored) \ gone) \cup {k}
                             IN [x \in dom |-> IF x = k THEN e.staleUntil ELSE stored[x]]
                /\ touched' = Append(SelectSeq(touched, LAMBDA x : x \notin gone \cup {k}), k)
                /\ placed' = LET rest == SelectSeq(placed, LAMBDA x : x \notin gone)
                             IN IF k \in CacheKeys(afterEvict) THEN rest ELSE Append(rest, k)
                /\ fifo' = IF fifo.ok /\ k \notin CacheKeys(cache)
                                     /\ Len(fifo.keys) <= cfg.maxEntries
                           THEN [fifo EXCEPT !.keys = Append(@, k)]
                           ELSE NoFifo
                /\ tally' = [tally EXCEPT !.evicted = @ + Len(cache) - Len(afterEvict)]
    /\ UNCHANGED <<cfg, now>>

\* keys: the keys of the Map
GetKeys == CacheKeys(cache)

\* a call of keys
CacheGetKeys ==
    /\ ret' = [NoRet EXCEPT !.op = "keys", !.keys = GetKeys]
    /\ fifo' = NoFifo
    /\ UNCHANGED <<cfg, cache, stats, stored, touched, placed, tally, now>>

\* getStats
GetStats ==
    [size |-> Len(cache), maxSize |-> cfg.maxEntries, hits |-> stats.hits,
     misses |-> stats.misses, staleHits |-> stats.staleHits, evictions |-> stats.evictions]

\* a call of getStats
CacheGetStats ==
    /\ ret' = [NoRet EXCEPT !.op = "getStats", !.size = GetStats.size]
    /\ fifo' = NoFifo
    /\ UNCHANGED <<cfg, cache, stats, stored, touched, placed, tally, now>>

\* delete and deleteByKey
CacheDelete(k) ==
    /\ cache' = Without(cache, k)
    /\ ret' = [NoRet EXCEPT !.op = "delete", !.key = k,
                            !.value = IF k \in CacheKeys(cache) THEN "true" ELSE "false"]
    /\ stored' = Restrict(stored, (DOMAIN stored) \ {k})
    /\ touched' = WithoutKey(touched, k)
    /\ placed' = WithoutKey(placed, k)
    /\ fifo' = NoFifo
    /\ UNCHANGED <<cfg, stats, tally, now>>

\* clear
CacheClear ==
    /\ cache' = <<>>
    /\ stats' = NoStats
    /\ ret' = [NoRet EXCEPT !.op = "clear"]
    /\ stored' = [k \in {} |-> 0]
    /\ touched' = <<>>
    /\ placed' = <<>>
    /\ fifo' = [ok |-> TRUE, keys |-> <<>>]
    /\ tally' = NoTally
    /\ UNCHANGED <<cfg, now>>

\* has: also removes the entry on hard expiry
CacheHas(k) ==
    /\ IF k \in CacheKeys(cache) /\ IsExpired(EntryOf(cache, k), now)
       THEN /\ cache' = Without(cache, k)
            /\ touched' = WithoutKey(touched, k)
            /\ placed' = WithoutKey(placed, k)
            /\ ret' = [NoRet EXCEPT !.op = "has", !.key = k, !.value = "false"]
       ELSE /\ ret' = [NoRet EXCEPT !.op = "has", !.key = k,
                                    !.value = IF k \in CacheKeys(cache) THEN "true" ELSE "false"]
            /\ UNCHANGED <<cache, touched, placed>>
    /\ fifo' = NoFifo
    /\ UNCHANGED <<cfg, stats, stored, tally, now>>

\* an isStale that moves the entry it finds to the most recent place, as get does
CacheIsStalePromoting(k) ==
    /\ ret' = [NoRet EXCEPT !.op = "isStale", !.key = k,
                            !.value = IF k \in CacheKeys(cache) /\ IsFresh(EntryOf(cache, k), now)
                                      THEN "false" ELSE "true"]
    /\ cache' = IF k \in CacheKeys(cache) THEN Append(Without(cache, k), EntryOf(cache, k))
                ELSE cache
    /\ fifo' = NoFifo
    /\ UNCHANGED <<cfg, stats, stored, touched, placed, tally, now>>

\* isStale: true unless the entry is there and fresh
CacheIsStale(k) ==
    /\ ret' = [NoRet EXCEPT !.op = "isStale", !.key = k,
                            !.value = IF k \in CacheKeys(cache) /\ IsFresh(EntryOf(cache, k), now)
                                      THEN "false" ELSE "true"]
    /\ fifo' = NoFifo
    /\ UNCHANGED <<cfg, cache, stats, stored, touched, placed, tally, now>>

(***************************************************************************)
(* Properties of the LRU cache                                             *)
(***************************************************************************)
\* A step that is a call of get, resp. of a set that stores
IsGetStep(k) == now' = now /\ ret'.op = "get" /\ ret'.key = k /\ stats' # stats
IsStoringSet == now' = now /\ ret'.op = "set" /\ ret'.value = "stored"

\* C1: for a key stored by a successful set and not since deleted, evicted or cleared,
\* get returns a result if and only if now <= staleUntil of the entry stored for it;
\* a get after staleUntil returns null and leaves no entry for the key in the cache.
C1_GetHitsIffWithinStaleUntil ==
    [][\A k \in DOMAIN stored :
          IsGetStep(k) =>
              /\ (ret'.value # "null") <=> (now <= stored[k])
              /\ now > stored[k] => ret'.value = "null" /\ k \notin CacheKeys(cache')]_vars

\* C1 witness: a get on a stored key after its staleUntil returned null and the key is gone
C1_Witness ==
    /\ ret.op = "get" /\ ret.value = "null"
    /\ ret.key \in DOMAIN stored /\ now > stored[ret.key]
    /\ ret.key \notin CacheKeys(cache)
    /\ stats.misses > 0

\* C2: a get that finds an entry returns it marked cached and fresh when
\* now <= timestamp + ttl, marked cached and stale when timestamp + ttl < now <= staleUntil,
\* and misses otherwise; exactly one of the three cases applies.
C2_FreshnessPartition ==
    [][\A k \in CacheKeys(cache) :
          IsGetStep(k) =>
              LET e == EntryOf(cache, k)
                  fresh == now <= e.timestamp + e.ttl
                  stale == e.timestamp + e.ttl < now /\ now <= e.staleUntil
                  miss == ~fresh /\ ~stale
              IN /\ fresh => ret'.value = "result" /\ ret'.cached /\ ret'.cacheHit = "fresh"
                 /\ stale => ret'.value = "result" /\ ret'.cached /\ ret'.cacheHit = "stale"
                 /\ miss => ret'.value = "null"
                 /\ (ret'.value = "null") <=> miss
                 /\ ret'.value = "result" => (ret'.cacheHit = "fresh") <=> fresh]_vars

\* C2 witness: a get returned an entry past its ttl and within its stale window as stale
C2_Witness ==
    /\ ret.op = "get" /\ ret.cached /\ ret.cacheHit = "stale"
    /\ ret.key \in CacheKeys(cache)
    /\ LET e == EntryOf(cache, ret.key) IN e.timestamp + e.ttl < now /\ now <= e.staleUntil

FifoKeys == {fifo.keys[i] : i \in 1..Len(fifo.keys)}

\* The step that sets the last of maxEntries + 1 distinct keys into an empty cache, nothing
\* else having been called: it evicts the first key set, and no other key is evicted
FirstInsertedEvicted ==
    (fifo'.ok /\ Len(fifo'.keys) = cfg.maxEntries + 1 /\ Len(fifo.keys) = cfg.maxEntries) =>
        /\ ret'.op = "set" /\ ret'.evicted = fifo.keys[1]
        /\ stats'.evictions = 1 /\ stats.evictions = 0
        /\ CacheKeys(cache) = FifoKeys
        /\ CacheKeys(cache') = (FifoKeys \ {fifo.keys[1]}) \cup {ret'.key}
        /\ Len(cache') = cfg.maxEntries

C23_FailedResultNeverCached ==
    [][/\ (ret'.op = "set" /\ ~ret'.success) => (cache' = cache /\ stats' = stats)
       /\ (ret'.op = "get" /\ ret'.value = "result") => ret'.data # "error"]_vars

C23_Witness ==
    /\ ret.op = "set" /\ ~ret.success
    /\ Len(cache) = cfg.maxEntries
    /\ ret.key \notin CacheKeys(cache)

C28_NoEntryPastStaleUntil ==
    /\ \A k \in GetKeys : now <= EntryOf(cache, k).staleUntil
    /\ GetStats.size = Cardinality({k \in CacheKeys(cache) : now <= EntryOf(cache, k).staleUntil})

\* C29: the cache holds at most maxEntries entries after every operation, whatever keys
\* the key generator produces.
C29_SizeWithinMaxEntries == Len(cache) <= cfg.maxEntries

\* C34: a set that stores a result for a key the cache already holds replaces that
\* key's entry: the set of cached keys is unchanged and evictions is not incremented,
\* also when the cache is at capacity.
C34_SetOfCachedKeyEvictsNothing ==
    [][(IsStoringSet /\ ret'.key \in CacheKeys(cache)) =>
          /\ CacheKeys(cache') = CacheKeys(cache)
          /\ stats'.evictions = stats.evictions]_vars

\* C37: since creation or the last clear, hits + staleHits + misses is the number of get
\* calls made, every get changing exactly one of the three, and evictions is the number
\* of entries set has removed to make room.
C37_CountersMatchGetsAndEvictions ==
    /\ stats.hits + stats.staleHits + stats.misses = tally.gets
    /\ stats.evictions = tally.evicted
    /\ ret.op = "get" =>
           Cardinality(ret.bumped) = 1 /\ ret.bumped \subseteq {"hits", "staleHits", "misses"}

\* C37 witness: a get has just counted a stale hit after a set evicted an entry
C37_Witness ==
    /\ ret.op = "get" /\ ret.cacheHit = "stale"
    /\ stats.staleHits = 1 /\ stats.evictions = 1 /\ tally.gets = 1 /\ tally.evicted = 1

\* C38: has, isStale, keys and getStats leave the four counters, the entries and their
\* recency order as they are, except that has removes the entry it is asked about when
\* that entry is past staleUntil.
C38_ReadsChangeNothingButExpiredHas ==
    [][(now' = now /\ ret'.op \in {"has", "isStale", "keys", "getStats"}) =>
          /\ stats' = stats
          /\ IF /\ ret'.op = "has" /\ ret'.key \in CacheKeys(cache)
                /\ now > EntryOf(cache, ret'.key).staleUntil
             THEN cache' = Without(cache, ret'.key)
             ELSE cache' = cache]_vars

\* C38 witness: has has just removed an entry past staleUntil, with another entry in
\* the cache and a hit counted before
C38_Witness ==
    /\ ret.op = "has" /\ ret.value = "false"
    /\ ret.key \in DOMAIN stored /\ now > stored[ret.key]
    /\ ret.key \notin CacheKeys(cache) /\ Len(cache) = 1
    /\ stats.hits + stats.staleHits >= 1

(***************************************************************************)
(* Request deduplicator                                                    *)
(***************************************************************************)
MaxRequests == 3    \* executor invocations dedupe starts in one run

DedupKeys == {"GET|/a", "GET|/b"}
Outcomes == {"success", "failure", "rejected"}
NoDret == [op |-> "none", key |-> "", req |-> 0, own |-> FALSE, live |-> {}, pending |-> {},
           outcome |-> ""]

InitDedup ==
    /\ inFlight = [k \in {} |-> 0]
    /\ reqs = <<>>
    /\ dret = NoDret

\* The requests for key k whose registered promise has not settled, and those of them
\* whose ledger entry no clear() has dropped
Pending(k) == {n \in 1..Len(reqs) : reqs[n].key = k /\ reqs[n].status # "done"}
Live(k) == {n \in Pending(k) : ~reqs[n].dropped}

\* dedupe: `inFlight.get(key)`, returned as it is when there is one
Dedupe(k) ==
    /\ IF k \in DOMAIN inFlight
       THEN /\ dret' = [NoDret EXCEPT !.op = "dedupe", !.key = k, !.req = inFlight[k],
                                       !.live = Live(k), !.pending = Pending(k)]
            /\ UNCHANGED <<inFlight, reqs>>
       ELSE /\ Len(reqs) < MaxRequests
            /\ reqs' = Append(reqs, [key |-> k, status |-> "running", outcome |-> "",
                                     dropped |-> FALSE])
            /\ inFlight' = [x \in (DOMAIN inFlight) \cup {k} |->
                               IF x = k THEN Len(reqs) + 1 ELSE inFlight[x]]
            /\ dret' = [NoDret EXCEPT !.op = "dedupe", !.key = k, !.req = Len(reqs) + 1,
                                       !.own = TRUE, !.live = Live(k), !.pending = Pending(k)]

\* The executor's promise settles: resolved with a success, resolved with a failure
\* result, or rejected
ExecutorSettles(n, outcome) ==
    /\ n \in 1..Len(reqs) /\ reqs[n].status = "running"
    /\ reqs' = [reqs EXCEPT ![n].status = "settled", ![n].outcome = outcome]
    /\ dret' = [NoDret EXCEPT !.op = "settle", !.key = reqs[n].key, !.req = n]
    /\ UNCHANGED inFlight

\* `.finally(() => { inFlight.delete(key) })`: the ledger without the key of request n
DeleteUnlessRejected(n) ==
    IF reqs[n].outcome = "rejected" THEN inFlight
    ELSE Restrict(inFlight, (DOMAIN inFlight) \ {reqs[n].key})
FinallyDelete(n) == Restrict(inFlight, (DOMAIN inFlight) \ {reqs[n].key})

\* The finally callback of request n runs, and the registered promise settles
Finally(n) ==
    /\ n \in 1..Len(reqs) /\ reqs[n].status = "settled"
    /\ inFlight' = FinallyDelete(n)
    /\ reqs' = [reqs EXCEPT ![n] = [key |-> reqs[n].key, status |-> "done", outcome |-> "",
                                    dropped |-> FALSE]]
    /\ dret' = [NoDret EXCEPT !.op = "finally", !.key = reqs[n].key, !.req = n,
                               !.outcome = reqs[n].outcome]

\* clear: `inFlight.clear()`
DedupClear ==
    /\ inFlight' = [k \in {} |-> 0]
    /\ reqs' = [n \in 1..Len(reqs) |->
                   IF reqs[n].key \in DOMAIN inFlight /\ inFlight[reqs[n].key] = n
                   THEN [reqs[n] EXCEPT !.dropped = TRUE] ELSE reqs[n]]
    /\ dret' = [NoDret EXCEPT !.op = "clear"]

\* getInFlightCount: `inFlight.size`
GetInFlightCount == Cardinality(DOMAIN inFlight)

NextDedup ==
    \/ /\ \E k \in DedupKeys : Dedupe(k)
       /\ UNCHANGED notDedupVars
    \/ /\ \E n \in 1..MaxRequests, o \in Outcomes : ExecutorSettles(n, o)
       /\ UNCHANGED notDedupVars
    \/ /\ \E n \in 1..MaxRequests : Finally(n)
       /\ UNCHANGED notDedupVars
    \/ /\ DedupClear
       /\ UNCHANGED notDedupVars

(***************************************************************************)
(* Properties of the deduplicator                                          *)
(***************************************************************************)
\* C4: a dedupe call made while an earlier request for the same key is registered and
\* its promise has not settled invokes no executor of its own and gets that request's
\* promise; a call made when every earlier request for the key has settled invokes its
\* own executor.
C4_ConcurrentCallsShareOneExecutor ==
    dret.op = "dedupe" =>
        /\ dret.live # {} => ~dret.own /\ dret.req \in dret.live
        /\ dret.pending = {} => dret.own

\* C5: at most one executor invocation started by dedupe is running for any one key
C5_AtMostOneOutstandingPerKey ==
    \A k \in DedupKeys :
        Cardinality({n \in 1..Len(reqs) : reqs[n].key = k /\ reqs[n].status = "running"}) <= 1

\* C6: once a registered promise has settled (success, failure result or rejection) the
\* ledger holds no entry for it, and the ledger is empty when no request is outstanding.
C6_NoEntrySurvivesSettlement ==
    /\ \A k \in DOMAIN inFlight : reqs[inFlight[k]].status # "done"
    /\ dret.op = "finally" => dret.key \notin DOMAIN inFlight
    /\ (\A n \in 1..Len(reqs) : reqs[n].status = "done") => GetInFlightCount = 0

\* C6 witness: a rejected request has just settled, others settled before it, and the
\* ledger is empty
C6_Witness ==
    /\ dret.op = "finally" /\ dret.outcome = "rejected"
    /\ Len(reqs) >= 2 /\ \A n \in 1..Len(reqs) : reqs[n].status = "done"
    /\ GetInFlightCount = 0

\* C32: a ledger entry leaves the ledger only at clear() or at the settlement of the
\* request it refers to; the settlement of an earlier request for the same key, dropped
\* by clear(), does not remove the entry of a later request.
C32_EntryRemovedOnlyByOwnSettlementOrClear ==
    [][\A k \in DOMAIN inFlight :
          k \notin DOMAIN inFlight' =>
              \/ dret'.op = "clear"
              \/ dret'.op = "finally" /\ dret'.req = inFlight[k]]_vars

(***************************************************************************)
(* Circuit breaker                                                         *)
(***************************************************************************)
MaxInFlight == 2    \* execute calls whose operation is running at one time
MaxFailures == 3    \* cap of the failure counter

NoCret == [op |-> "none", before |-> "", invoked |-> FALSE, code |-> "", attempts |-> 0,
           attemptErrors |-> 0, outcome |-> "", admitted |-> "", trial |-> FALSE,
           disturbed |-> FALSE]

InitBreakerWith(thresholds, timeouts) ==
    /\ breaker \in [failureThreshold : thresholds, recoveryTimeout : timeouts]
    /\ failures = 0
    /\ lastFailureTime = 0
    /\ state = "CLOSED"
    /\ calls = <<>>
    /\ consec = 0
    /\ cret = NoCret

InitBreaker == InitBreakerWith({1, 2}, {1, 2})
IdleBreaker == InitBreakerWith({1}, {1})

\* execute: `Date.now() - this.lastFailureTime < this.recoveryTimeout`
InRecoveryWindow == now - lastFailureTime < breaker.recoveryTimeout

\* onFailure: `this.failures >= this.failureThreshold`
ThresholdExceeded(f) == f > breaker.failureThreshold
ThresholdReached(f) == f >= breaker.failureThreshold

\* onSuccess: `this.failures = 0`
FailuresKept == failures
FailuresAfterSuccess == 0

\* execute, up to `await operation()`: an open circuit inside its recovery window answers
\* failure(createRetryExhaustionError(..., 0, [], ...)) and the operation is not called;
\* past the window the state becomes HALF_OPEN and the operation is called
Execute ==
    IF state = "OPEN" /\ InRecoveryWindow
    THEN /\ cret' = [NoCret EXCEPT !.op = "execute", !.before = state,
                                   !.code = "RETRY_EXHAUSTION_ERROR"]
         /\ UNCHANGED <<failures, lastFailureTime, state, breaker, calls, consec>>
    ELSE /\ Len(calls) < MaxInFlight
         /\ state' = IF state = "OPEN" THEN "HALF_OPEN" ELSE state
         /\ calls' = Append(calls, [admitted |-> state', trial |-> state = "OPEN",
                                    disturbed |-> FALSE])
         /\ cret' = [NoCret EXCEPT !.op = "execute", !.before = state, !.invoked = TRUE,
                                   !.admitted = state', !.trial = state = "OPEN"]
         /\ UNCHANGED <<failures, lastFailureTime, breaker, consec>>

RemoveAt(sq, i) == [j \in 1..(Len(sq) - 1) |-> IF j < i THEN sq[j] ELSE sq[j + 1]]
Disturb(sq) == [j \in 1..Len(sq) |-> [sq[j] EXCEPT !.disturbed = TRUE]]

\* execute, after `await operation()`: onSuccess for a success result, onFailure for a
\* failure result; a rejected operation rejects execute and records nothing
Complete(i, outcome) ==
    /\ i \in 1..Len(calls)
    /\ calls' = RemoveAt(calls, i)
    /\ cret' = [NoCret EXCEPT !.op = "complete", !.before = state, !.outcome = outcome,
                              !.admitted = calls[i].admitted, !.trial = calls[i].trial,
                              !.disturbed = calls[i].disturbed]
    /\ CASE outcome = "success" ->
              /\ failures' = FailuresAfterSuccess
              /\ state' = "CLOSED"
              /\ consec' = 0
              /\ UNCHANGED lastFailureTime
         [] outcome = "failure" ->
              /\ failures < MaxFailures
              /\ failures' = failures + 1
              /\ lastFailureTime' = now
              /\ state' = IF ThresholdReached(failures') THEN "OPEN" ELSE state
              /\ consec' = consec + 1
         [] OTHER ->
              UNCHANGED <<failures, lastFailureTime, state, consec>>
    /\ UNCHANGED breaker

\* reset
Reset ==
    /\ failures' = 0
    /\ lastFailureTime' = 0
    /\ state' = "CLOSED"
    /\ consec' = 0
    /\ calls' = Disturb(calls)
    /\ cret' = [NoCret EXCEPT !.op = "reset", !.before = state]
    /\ UNCHANGED breaker

NextBreaker ==
    \/ /\ Tick
       /\ UNCHANGED <<breakerVars, notBreakerVars>>
    \/ /\ Execute
       /\ UNCHANGED <<now, notBreakerVars>>
    \/ /\ \E i \in 1..MaxInFlight, o \in Outcomes : Complete(i, o)
       /\ UNCHANGED <<now, notBreakerVars>>
    \/ /\ Reset
       /\ UNCHANGED <<now, notBreakerVars>>

(***************************************************************************)
(* Properties of the circuit breaker                                       *)
(***************************************************************************)
\* A step that is a call of execute, resp. the completion of a call's operation
IsExecuteStep == now' = now /\ cret'.op = "execute"
IsCompleteStep == now' = now /\ cret'.op = "complete" /\ Len(calls') < Len(calls)

\* C7: the failure result that makes failureThreshold consecutive ones leaves the state
\* OPEN; an execute call made while the state is OPEN and less than recoveryTimeout has
\* passed since the last recorded failure answers RETRY_EXHAUSTION_ERROR with 0 attempts
\* and no attempt errors, and does not call the operation.
C7_OpensAtThresholdAndRejects ==
    [][/\ (IsCompleteStep /\ cret'.outcome = "failure"
             /\ consec' >= breaker.failureThreshold) => state' = "OPEN"
       /\ (IsExecuteStep /\ state = "OPEN"
             /\ now - lastFailureTime < breaker.recoveryTimeout) =>
               /\ cret'.code = "RETRY_EXHAUSTION_ERROR"
               /\ cret'.attempts = 0 /\ cret'.attemptErrors = 0
               /\ ~cret'.invoked /\ calls' = calls
               /\ state' = "OPEN"]_vars

\* C7 witness: two consecutive failures opened a circuit of threshold 2 and a call was
\* rejected inside the recovery window
C7_Witness ==
    /\ breaker.failureThreshold = 2 /\ consec = 2 /\ state = "OPEN"
    /\ cret.op = "execute" /\ ~cret.invoked /\ cret.code = "RETRY_EXHAUSTION_ERROR"
    /\ now - lastFailureTime < breaker.recoveryTimeout

\* C8: with the state OPEN and recoveryTimeout passed since the last recorded failure,
\* an execute call calls the operation and the state is HALF_OPEN; the state stays
\* HALF_OPEN while that operation runs (no reset() being called meanwhile); and when it
\* succeeds the state becomes CLOSED with failure count 0.
C8_TrialRunsHalfOpenAndSuccessCloses ==
    [][/\ (IsExecuteStep /\ state = "OPEN"
             /\ now - lastFailureTime >= breaker.recoveryTimeout) =>
               cret'.invoked /\ cret'.trial /\ state' = "HALF_OPEN"
       /\ \A i \in 1..Len(calls') :
               (calls'[i].trial /\ ~calls'[i].disturbed) => state' = "HALF_OPEN"
       /\ (IsCompleteStep /\ cret'.trial /\ cret'.outcome = "success") =>
               state' = "CLOSED" /\ failures' = 0]_vars

\* C9: when a call admitted in HALF_OPEN returns a failure result (no reset() having been
\* called since it was admitted), the state is OPEN, the failure count is at or above
\* failureThreshold and the recovery window starts at that failure.
C9_HalfOpenFailureReopens ==
    [][(IsCompleteStep /\ cret'.admitted = "HALF_OPEN" /\ cret'.outcome = "failure"
          /\ ~cret'.disturbed) =>
            /\ state' = "OPEN"
            /\ failures' >= breaker.failureThreshold
            /\ lastFailureTime' = now]_vars

\* C10: a call that completes with a success while the state is CLOSED or HALF_OPEN sets
\* the failure count to 0 and the state to CLOSED; the state becomes OPEN only at a
\* recorded failure, and only with failureThreshold failures recorded since the last
\* recorded success or reset().
C10_SuccessResetsAndOpeningNeedsThreshold ==
    [][/\ (IsCompleteStep /\ cret'.outcome = "success"
             /\ state \in {"CLOSED", "HALF_OPEN"}) =>
               failures' = 0 /\ state' = "CLOSED"
       /\ (state' = "OPEN" /\ state # "OPEN") =>
               /\ IsCompleteStep /\ cret'.outcome = "failure"
               /\ consec' >= breaker.failureThreshold
       /\ state' = "OPEN" => consec' >= breaker.failureThreshold]_vars

\* C10 witness: a trial call admitted in HALF_OPEN succeeded and closed the circuit
C10_Witness ==
    /\ cret.op = "complete" /\ cret.outcome = "success"
    /\ cret.before = "HALF_OPEN" /\ cret.admitted = "HALF_OPEN"
    /\ state = "CLOSED" /\ failures = 0 /\ consec = 0
    /\ breaker.failureThreshold = 2

\* C30: an OPEN circuit leaves the OPEN state only when recoveryTimeout has passed since
\* the last recorded failure or at a reset(); the completion of a call admitted before
\* the circuit opened does not close it.
C30_OpenUntilRecoveryOrReset ==
    [][(state = "OPEN" /\ state' # "OPEN") =>
          \/ cret'.op = "reset"
          \/ now - lastFailureTime >= breaker.recoveryTimeout]_vars

\* C31: while a trial call (one admitted from OPEN after recoveryTimeout had passed) is in
\* flight and no reset() has been called since, an execute call does not call the
\* operation.
C31_AtMostOneTrialInFlight ==
    [][(IsExecuteStep /\ \E i \in 1..Len(calls) : calls[i].trial /\ ~calls[i].disturbed) =>
          ~cret'.invoked /\ calls' = calls]_vars

(***************************************************************************)
(* Stale-while-revalidate cache                                            *)
(***************************************************************************)
MaxFetches == 2     \* revalidate() calls that have not settled, at one time

NoSret == [op |-> "none", key |-> "", served |-> "", started |-> "", outcome |-> "",
           unhandled |-> FALSE]

InitSwr ==
    /\ revalidating = {}
    /\ bg = [k \in Keys |-> 0]
    /\ fg = [k \in Keys |-> 0]
    /\ sret = NoSret

Fetches == bg["GET|/a"] + bg["GET|/b"] + fg["GET|/a"] + fg["GET|/b"]

\* `if (!cache.isStale(config)) return cached`
RevalidatesAlways(stale) == FALSE
ServesWithoutRevalidation(stale) == ~stale

\* `if (!revalidating.has(key))`
NeverRevalidating(k) == FALSE
AlreadyRevalidating(k) == k \in revalidating

\* `.catch(() => { ... })` on the background promise
CaughtUnlessRejected(outcome) == outcome # "rejected"
CaughtInBackground(outcome) == TRUE

\* getWithRevalidation up to its return or its `await revalidate()`; cache.get and
\* cache.isStale read the clock at the same instant
GetWithRevalidation(k) ==
    /\ CacheGet(k)
    /\ IF k \notin CacheKeys(cache) \/ IsExpired(EntryOf(cache, k), now)
       THEN /\ Fetches < MaxFetches
            /\ fg' = [fg EXCEPT ![k] = @ + 1]
            /\ sret' = [NoSret EXCEPT !.op = "getWithRevalidation", !.key = k,
                                      !.started = "foreground"]
            /\ UNCHANGED <<revalidating, bg>>
       ELSE LET stale == ~IsFresh(EntryOf(cache, k), now)
                served == IF IsFresh(EntryOf(cache, k), now) THEN "fresh" ELSE "stale"
            IN  IF ServesWithoutRevalidation(stale) \/ AlreadyRevalidating(k)
                THEN /\ sret' = [NoSret EXCEPT !.op = "getWithRevalidation", !.key = k,
                                               !.served = served]
                     /\ UNCHANGED <<revalidating, bg, fg>>
                ELSE /\ Fetches < MaxFetches
                     /\ revalidating' = revalidating \cup {k}
                     /\ bg' = [bg EXCEPT ![k] = @ + 1]
                     /\ sret' = [NoSret EXCEPT !.op = "getWithRevalidation", !.key = k,
                                               !.served = served, !.started = "background"]
                     /\ UNCHANGED fg

\* getWithRevalidation after `await revalidate()`: a success is stored, the result or
\* the rejection goes to the caller
ForegroundSettles(k, outcome) ==
    /\ fg[k] > 0
    /\ fg' = [fg EXCEPT ![k] = @ - 1]
    /\ IF outcome = "success" THEN CacheSet(k, TRUE, "b2", 0) ELSE UNCHANGED <<cacheVars, now>>
    /\ sret' = [NoSret EXCEPT !.op = "foreground", !.key = k, !.outcome = outcome]
    /\ UNCHANGED <<revalidating, bg>>

\* a background promise whose finally callback is skipped when revalidate() rejects
BackgroundSettlesWithoutFinally(k, outcome) ==
    /\ bg[k] > 0
    /\ bg' = [bg EXCEPT ![k] = @ - 1]
    /\ IF outcome = "success" THEN CacheSet(k, TRUE, "b2", 0) ELSE UNCHANGED <<cacheVars, now>>
    /\ revalidating' = IF outcome = "rejected" THEN revalidating ELSE revalidating \ {k}
    /\ sret' = [NoSret EXCEPT !.op = "background", !.key = k, !.outcome = outcome,
                              !.unhandled = ~CaughtInBackground(outcome)]
    /\ UNCHANGED fg

\* the background promise settles: then (a success is stored), catch, finally
BackgroundSettles(k, outcome) ==
    /\ bg[k] > 0
    /\ bg' = [bg EXCEPT ![k] = @ - 1]
    /\ IF outcome = "success" THEN CacheSet(k, TRUE, "b2", 0) ELSE UNCHANGED <<cacheVars, now>>
    /\ revalidating' = revalidating \ {k}
    /\ sret' = [NoSret EXCEPT !.op = "background", !.key = k, !.outcome = outcome,
                              !.unhandled = ~CaughtInBackground(outcome)]
    /\ UNCHANGED fg

\* The SWR cache over a cache that is also set and cleared directly
NextSwr ==
    \/ /\ Tick
       /\ UNCHANGED <<cacheVars, swrVars, notSwrVars>>
    \/ /\ \E k \in Keys : GetWithRevalidation(k)
       /\ UNCHANGED notSwrVars
    \/ /\ \E k \in Keys, o \in Outcomes : ForegroundSettles(k, o)
       /\ UNCHANGED notSwrVars
    \/ /\ \E k \in Keys, o \in Outcomes : BackgroundSettles(k, o)
       /\ UNCHANGED notSwrVars
    \/ /\ \E k \in Keys : CacheSet(k, TRUE, "b1", 0)
       /\ UNCHANGED <<swrVars, notSwrVars>>
    \/ /\ CacheClear
       /\ UNCHANGED <<swrVars, notSwrVars>>

(***************************************************************************)
(* Properties of the SWR cache                                             *)
(***************************************************************************)
\* A step that is a call of getWithRevalidation for key k
IsSwrGetStep(k) ==
    /\ now' = now /\ stats' # stats /\ ret'.op = "get" /\ ret'.key = k
    /\ sret'.op = "getWithRevalidation" /\ sret'.key = k

\* C11: a getWithRevalidation call that finds an entry past its ttl but not past its
\* staleUntil returns that entry marked stale without awaiting revalidate(), and in every
\* state at most one background revalidate() call per key has not settled.
C11_StaleServedAndOneBackgroundRevalidation ==
    [][/\ \A k \in Keys :
            (/\ IsSwrGetStep(k)
             /\ k \in CacheKeys(cache)
             /\ LET e == EntryOf(cache, k)
                IN e.timestamp + e.ttl < now /\ now <= e.staleUntil) =>
                /\ sret'.served = "stale" /\ ret'.cacheHit = "stale"
                /\ ret'.data = EntryOf(cache, k).data
                /\ fg' = fg
       /\ \A k \in Keys : bg'[k] <= 1]_vars

\* C11 witness: a second call found the stale entry while the background revalidation the
\* first call started was still running, and started none
C11_Witness ==
    /\ sret.op = "getWithRevalidation" /\ sret.served = "stale" /\ sret.started = ""
    /\ bg[sret.key] = 1 /\ sret.key \in revalidating

\* C12: when a background revalidation settles with a failure result or a rejection, the
\* cache entries are what they were (data, timestamp, ttl, staleUntil) and no rejection is
\* left unhandled.
C12_BackgroundFailureLeavesEntry ==
    [][\A k \in Keys :
        (bg'[k] < bg[k] /\ sret'.outcome \in {"failure", "rejected"}) =>
            /\ cache' = cache
            /\ ~sret'.unhandled
            /\ sret'.op = "background"]_vars

\* C12 witness: a background revalidation was rejected while its stale entry was cached
C12_Witness ==
    /\ sret.op = "background" /\ sret.outcome = "rejected"
    /\ sret.key \in CacheKeys(cache)
    /\ EntryOf(cache, sret.key).data = "b1"
    /\ sret.key \notin revalidating

C40_RevalidationEventuallyLeavesSet ==
    /\ [](\A k \in Keys : k \in revalidating <=> bg[k] > 0)
    /\ \A k \in Keys : (k \in revalidating) ~> (k \notin revalidating)

\* C40 witness: a second background revalidation of a key is running, the first one
\* having settled and left the set
C40_Witness ==
    /\ sret.op = "getWithRevalidation" /\ sret.started = "background"
    /\ sret.key \in revalidating /\ bg[sret.key] = 1
    /\ stats.staleHits = 2

(***************************************************************************)
(* Retry strategy                                                          *)
(***************************************************************************)
MaxRetries == 2     \* the largest maxRetries configured

\* Errors an executor returns: a code and an HTTP status (0: none)
NetworkError == [code |-> "NETWORK_ERROR", status |-> 0]
TimeoutError == [code |-> "TIMEOUT_ERROR", status |-> 0]
Errors == {NetworkError, TimeoutError,
           [code |-> "HTTP_ERROR", status |-> 503], [code |-> "HTTP_ERROR", status |-> 404],
           [code |-> "VALIDATION_ERROR", status |-> 0]}
NoError == [code |-> "", status |-> 0]
Success == [code |-> "success", status |-> 200]

IdleRs == [phase |-> "idle", attempt |-> 0, calls |-> 0, sleeps |-> 0, history |-> <<>>,
           answers |-> <<>>, returned |-> NoError]

InitStrategyWith(retries, customs) ==
    /\ strategy \in [maxRetries : retries, retryOn : {{500, 503}, {404}}, custom : customs]
    /\ rs = IdleRs

InitStrategy == InitStrategyWith(0..MaxRetries, BOOLEAN)
IdleStrategy == InitStrategyWith({0}, {FALSE})

\* execute: `while (attempt <= maxRetries)`
LoopContinuesOnceMore(attempt) == attempt <= strategy.maxRetries + 1
LoopContinues(attempt) == attempt <= strategy.maxRetries

\* shouldRetry: `attempt >= maxRetries` returns false
AttemptsRemainAtLimit(attempt) == ~(attempt > strategy.maxRetries)
AttemptsRemain(attempt) == ~(attempt >= strategy.maxRetries)

\* shouldRetry: the error's code, then its status
Retryable(error) ==
    \/ error.code = "NETWORK_ERROR" \/ error.code = "TIMEOUT_ERROR"
    \/ error.status # 0 /\ error.status \in strategy.retryOn

\* shouldRetry(error, attempt); answer is what config.shouldRetry returns when configured
ShouldRetry(error, attempt, answer) ==
    IF strategy.custom THEN answer ELSE AttemptsRemain(attempt) /\ Retryable(error)

\* execute from its start to the first `await executor()`
StrategyExecute ==
    /\ rs.phase \in {"idle", "done"}
    /\ LoopContinues(0)
    /\ rs' = [IdleRs EXCEPT !.phase = "executor", !.calls = 1]
    /\ UNCHANGED strategy

\* execute after `await executor()`: return the result, or decide to retry and sleep
ExecutorReturns(result, answer) ==
    /\ rs.phase = "executor"
    /\ strategy.custom \/ ~answer
    /\ IF result = Success
       THEN rs' = [rs EXCEPT !.phase = "done", !.returned = result,
                             !.history = Append(@, result)]
       ELSE IF ~ShouldRetry(result, rs.attempt, answer)
            THEN rs' = [rs EXCEPT !.phase = "done", !.returned = result,
                                  !.history = Append(@, result),
                                  !.answers = Append(@, answer)]
            ELSE rs' = [rs EXCEPT !.phase = "sleep", !.sleeps = @ + 1,
                                  !.history = Append(@, result),
                                  !.answers = Append(@, answer)]
    /\ UNCHANGED strategy

\* execute after `await sleep(delay)`: attempt += 1, then the next turn of the loop or
\* `return lastResult`
SleepEnds ==
    /\ rs.phase = "sleep"
    /\ IF LoopContinues(rs.attempt + 1)
       THEN rs' = [rs EXCEPT !.phase = "executor", !.attempt = @ + 1, !.calls = @ + 1]
       ELSE rs' = [rs EXCEPT !.phase = "done", !.attempt = @ + 1,
                             !.returned = rs.history[Len(rs.history)]]
    /\ UNCHANGED strategy

NextStrategy ==
    \/ /\ StrategyExecute
       /\ UNCHANGED notStrategyVars
    \/ /\ \E r \in Errors \cup {Success}, a \in BOOLEAN : ExecutorReturns(r, a)
       /\ UNCHANGED notStrategyVars
    \/ /\ SleepEnds
       /\ UNCHANGED notStrategyVars

(***************************************************************************)
(* Properties of the retry strategy                                        *)
(***************************************************************************)
\* C14: within one execute call the executor is called at most maxRetries + 1 times; a
\* success is the last result the executor gave, it is what execute returns, and no call
\* follows it; when execute returns without a success it returns a failure the executor
\* gave. This holds with the default rule and with any answers of a custom shouldRetry.
C14_FirstSuccessOrBoundedFailure ==
    /\ rs.calls <= strategy.maxRetries + 1
    /\ rs.calls = Len(rs.history) + (IF rs.phase = "executor" THEN 1 ELSE 0)
    /\ \A i \in 1..Len(rs.history) :
           rs.history[i] = Success =>
               i = Len(rs.history) /\ rs.phase = "done" /\ rs.returned = Success
    /\ rs.phase = "done" =>
           /\ rs.returned = rs.history[Len(rs.history)]
           /\ rs.returned = Success \/ rs.returned \in Errors
    /\ rs.phase = "sleep" => rs.history[Len(rs.history)] \in Errors

\* C14 witness: with the default rule, maxRetries + 1 = 3 calls failed and the last failure
\* was returned
C14_Witness ==
    /\ ~strategy.custom /\ strategy.maxRetries = 2
    /\ rs.phase = "done" /\ rs.calls = 3 /\ rs.returned \in Errors

\* The step in which an executor call returns a failure
IsFailureReturn ==
    /\ rs.phase = "executor" /\ rs'.phase # "executor"
    /\ rs'.history[Len(rs'.history)] # Success

\* What a failure return decides: with no custom shouldRetry, a sleep follows exactly when
\* fewer than maxRetries retries were made and the error is a network or timeout error or
\* has a status in retryOn; with a custom shouldRetry, exactly when it answered true;
\* otherwise the failure is returned as it is
FailureReturnDecides ==
    IsFailureReturn =>
        LET e == rs'.history[Len(rs'.history)]
            a == rs'.answers[Len(rs'.answers)]
        IN  /\ (rs'.phase = "sleep") <=>
                   IF strategy.custom THEN a
                   ELSE /\ rs.attempt < strategy.maxRetries
                        /\ \/ e.code \in {"NETWORK_ERROR", "TIMEOUT_ERROR"}
                           \/ e.status \in strategy.retryOn
            /\ rs'.phase = "done" => rs'.returned = e /\ rs'.calls = rs.calls

C39_NoSleepAfterLastExecutorCall ==
    rs.phase = "done" => rs.sleeps = rs.calls - 1

(***************************************************************************)
(* withRetry                                                               *)
(***************************************************************************)
MaxAttempts == 2    \* the largest maxAttempts configured

\* An error the operation throws instead of returning
Thrown == [code |-> "THROWN", status |-> 0]

NoResult == [code |-> "", status |-> 0, attempts |-> 0, attemptErrors |-> <<>>]
\* failure(error), and the success result
FailureOf(e) == [NoResult EXCEPT !.code = e.code, !.status = e.status]
\* failure(createRetryExhaustionError(url, method, attempts, attemptErrors))
CreateRetryExhaustionError(attempts, attemptErrors) ==
    [NoResult EXCEPT !.code = "RETRY_EXHAUSTION_ERROR", !.attempts = attempts,
                     !.attemptErrors = attemptErrors]

IdleWr == [phase |-> "idle", attempt |-> 0, calls |-> 0, errors |-> <<>>, trace |-> <<>>,
           answers |-> <<>>, returned |-> NoResult]

InitWithRetryWith(attempts, customs) ==
    /\ retryCfg \in [maxAttempts : attempts, custom : customs]
    /\ wr = IdleWr

InitWithRetry == InitWithRetryWith(0..MaxAttempts, BOOLEAN)
IdleWithRetry == InitWithRetryWith({1}, {FALSE})

\* retryConditions.default
DefaultCondition(e) ==
    \/ e.code = "NETWORK_ERROR" \/ e.code = "TIMEOUT_ERROR"
    \/ e.code = "HTTP_ERROR" /\ (e.status >= 500 \/ e.status = 429)

\* shouldRetry(error, attempt): the configured condition's answer, or the default's
Condition(e, answer) == IF retryCfg.custom THEN answer ELSE DefaultCondition(e)

\* `attempt < retryConfig.maxAttempts`
RetriesLeftButOne(attempt) == attempt + 1 < retryCfg.maxAttempts
RetriesLeft(attempt) == attempt < retryCfg.maxAttempts

\* `if (!shouldRetry(error, attempt)) return failure(error)`
ReturnsExhaustionAlways(accepted) == FALSE
ReturnsOriginalError(accepted) == ~accepted

\* withRetry from its start to the first `await operation()`, or past a loop that never runs
WithRetry ==
    /\ wr.phase \in {"idle", "done"}
    /\ IF 1 <= retryCfg.maxAttempts
       THEN wr' = [IdleWr EXCEPT !.phase = "operation", !.attempt = 1, !.calls = 1]
       ELSE wr' = [IdleWr EXCEPT !.phase = "done",
                                 !.returned = CreateRetryExhaustionError(retryCfg.maxAttempts,
                                                                         <<>>)]
    /\ UNCHANGED retryCfg

\* withRetry after `await operation()` returned: first and second are what the two
\* evaluations of the configured shouldRetry answer
OperationReturns(result, first, second) ==
    /\ wr.phase = "operation"
    /\ IF result = Success
       THEN /\ ~first /\ ~second
            /\ wr' = [wr EXCEPT !.phase = "done", !.returned = FailureOf(Success),
                                !.trace = Append(@, result)]
       ELSE LET errors == Append(wr.errors, result)
                retry == RetriesLeft(wr.attempt) /\ Condition(result, first)
                asked == IF ~retryCfg.custom THEN <<>>
                         ELSE IF ~RetriesLeft(wr.attempt) THEN <<second>>
                         ELSE IF retry THEN <<first>> ELSE <<first, second>>
            IN  /\ retryCfg.custom \/ (~first /\ ~second)
                /\ RetriesLeft(wr.attempt) \/ ~first
                /\ retry => ~second
                /\ wr' = [wr EXCEPT
                       !.phase = IF retry THEN "sleep" ELSE "done",
                       !.errors = errors,
                       !.trace = Append(@, result),
                       !.answers = Append(@, asked),
                       !.returned =
                           IF retry THEN NoResult
                           ELSE IF ReturnsOriginalError(Condition(result, second))
                                THEN FailureOf(result)
                                ELSE CreateRetryExhaustionError(retryCfg.maxAttempts, errors)]
    /\ UNCHANGED retryCfg

\* withRetry when `await operation()` throws: the catch block
OperationThrows ==
    /\ wr.phase = "operation"
    /\ LET errors == Append(wr.errors, Thrown)
       IN wr' = [wr EXCEPT
              !.phase = IF wr.attempt >= retryCfg.maxAttempts THEN "done" ELSE "sleep",
              !.errors = errors,
              !.trace = Append(@, Thrown),
              !.answers = Append(@, <<>>),
              !.returned = IF wr.attempt >= retryCfg.maxAttempts
                           THEN CreateRetryExhaustionError(retryCfg.maxAttempts, errors)
                           ELSE NoResult]
    /\ UNCHANGED retryCfg

\* withRetry after `await sleep(delay)`: attempt++, the loop test, the next await
RetrySleepEnds ==
    /\ wr.phase = "sleep"
    /\ IF wr.attempt + 1 <= retryCfg.maxAttempts
       THEN wr' = [wr EXCEPT !.phase = "operation", !.attempt = @ + 1, !.calls = @ + 1]
       ELSE wr' = [wr EXCEPT !.phase = "done", !.attempt = @ + 1,
                             !.returned = CreateRetryExhaustionError(retryCfg.maxAttempts,
                                                                     wr.errors)]
    /\ UNCHANGED retryCfg

NextWithRetry ==
    \/ /\ WithRetry
       /\ UNCHANGED notWithRetryVars
    \/ /\ \E r \in Errors \cup {Success}, a \in BOOLEAN, b \in BOOLEAN : OperationReturns(r, a, b)
       /\ UNCHANGED notWithRetryVars
    \/ /\ OperationThrows
       /\ UNCHANGED notWithRetryVars
    \/ /\ RetrySleepEnds
       /\ UNCHANGED notWithRetryVars

(***************************************************************************)
(* Properties of withRetry                                                 *)
(***************************************************************************)
\* The answers of the retry condition for the error of attempt i: the configured
\* condition's recorded answers, or the default condition's value
AnswersFor(i) ==
    IF wr.trace[i] = Thrown THEN {}
    ELSE IF retryCfg.custom THEN {wr.answers[i][j] : j \in 1..Len(wr.answers[i])}
    ELSE {DefaultCondition(wr.trace[i])}

\* C16: when withRetry has returned and every attempt failed with an error the retry
\* condition accepted, the operation was called exactly maxAttempts times and the result is
\* a RETRY_EXHAUSTION_ERROR whose attempt errors are the errors of all attempts, in order.
C16_ExhaustionCarriesEveryAttemptError ==
    (/\ wr.phase = "done"
     /\ \A i \in 1..Len(wr.trace) : wr.trace[i] # Success /\ FALSE \notin AnswersFor(i)) =>
        /\ wr.calls = retryCfg.maxAttempts
        /\ Len(wr.trace) = retryCfg.maxAttempts
        /\ wr.returned.code = "RETRY_EXHAUSTION_ERROR"
        /\ wr.returned.attemptErrors = wr.trace
        /\ wr.returned.attempts = retryCfg.maxAttempts

\* C16 witness: two attempts failed with accepted errors and withRetry returned the
\* exhaustion error with both
C16_Witness ==
    /\ wr.phase = "done" /\ retryCfg.maxAttempts = 2 /\ wr.calls = 2
    /\ wr.returned.code = "RETRY_EXHAUSTION_ERROR"
    /\ wr.returned.attemptErrors = <<[code |-> "HTTP_ERROR", status |-> 503], NetworkError>>
    /\ ~retryCfg.custom

\* C17: when the operation returns an error and every answer of the retry condition for it
\* is a rejection, withRetry returns that error itself and calls the operation no more,
\* on the last allowed attempt as on an earlier one.
C17_RejectedErrorReturnedAsIs ==
    [][(/\ wr.phase = "operation" /\ wr' # wr
        /\ LET n == Len(wr'.trace)
           IN /\ wr'.trace[n] \in Errors
              /\ IF retryCfg.custom THEN TRUE \notin {wr'.answers[n][j] : j \in 1..Len(wr'.answers[n])}
                 ELSE ~(\/ wr'.trace[n].code \in {"NETWORK_ERROR", "TIMEOUT_ERROR"}
                        \/ wr'.trace[n].code = "HTTP_ERROR"
                             /\ (wr'.trace[n].status >= 500 \/ wr'.trace[n].status = 429))) =>
            /\ wr'.phase = "done"
            /\ wr'.calls = wr.calls
            /\ wr'.returned = FailureOf(wr'.trace[Len(wr'.trace)])
            /\ wr'.returned.code # "RETRY_EXHAUSTION_ERROR"]_vars

\* C17 witness: the error of the last allowed attempt was rejected and returned as it is
C17_Witness ==
    /\ wr.phase = "done" /\ retryCfg.maxAttempts = 2 /\ wr.attempt = 2
    /\ wr.returned = FailureOf([code |-> "HTTP_ERROR", status |-> 404])
    /\ wr.trace[1] = NetworkError

(***************************************************************************)
(* The client's cache path: LRU cache, tag registry, vary headers          *)
(***************************************************************************)
MaxClientFetches == 1   \* cacheable requests in flight at one time

Urls == {"/a", "/b"}
HeaderValues == {"x", "y"}          \* values of the request header named in varyHeaders
TagSets == {{}, {"t", "u"}}  \* cacheTags of a request
TagNames == {"t", "u"}

\* generateCacheKey for a GET request without params: method|url
GenerateCacheKey(url) == "GET" \o "|" \o url

\* generateVaryAwareCacheKey with varyHeaders = ['Accept']
GenerateVaryAwareCacheKey(url, h) ==
    GenerateCacheKey(url) \o "|vary[" \o "Accept" \o ":" \o h \o "]"

\* executeRequest.getCacheKey: undefined ("") unless varyHeaders is non-empty
GetCacheKey(url, h) == IF client.vary THEN GenerateVaryAwareCacheKey(url, h) ELSE ""

NoTags == [tagToKeys |-> [t \in {} |-> {}], keyToTags |-> [k \in {} |-> {}], allKeys |-> {}]

\* TagRegistry.register
Register(reg, key, ts) ==
    IF ts = {} THEN reg
    ELSE [tagToKeys |-> [t \in (DOMAIN reg.tagToKeys) \cup ts |->
                            IF t \in ts
                            THEN (IF t \in DOMAIN reg.tagToKeys THEN reg.tagToKeys[t] ELSE {})
                                 \cup {key}
                            ELSE reg.tagToKeys[t]],
          keyToTags |-> [k \in (DOMAIN reg.keyToTags) \cup {key} |->
                            IF k = key
                            THEN (IF k \in DOMAIN reg.keyToTags THEN reg.keyToTags[k] ELSE {})
                                 \cup ts
                            ELSE reg.keyToTags[k]],
          allKeys |-> reg.allKeys \cup {key}]

\* unregister that leaves a tag with an empty key-set behind
UnregisterKeepingEmptyTags(reg, key) ==
    IF key \notin DOMAIN reg.keyToTags THEN reg
    ELSE [tagToKeys |-> [t \in DOMAIN reg.tagToKeys |-> reg.tagToKeys[t] \ {key}],
          keyToTags |-> [k \in (DOMAIN reg.keyToTags) \ {key} |-> reg.keyToTags[k]],
          allKeys |-> reg.allKeys \ {key}]

\* TagRegistry.unregister
Unregister(reg, key) ==
    IF key \notin DOMAIN reg.keyToTags THEN reg
    ELSE LET ts == reg.keyToTags[key]
             left == {t \in DOMAIN reg.tagToKeys : ~(t \in ts /\ reg.tagToKeys[t] \ {key} = {})}
         IN [tagToKeys |-> [t \in left |-> IF t \in ts THEN reg.tagToKeys[t] \ {key}
                                           ELSE reg.tagToKeys[t]],
             keyToTags |-> [k \in (DOMAIN reg.keyToTags) \ {key} |-> reg.keyToTags[k]],
             allKeys |-> reg.allKeys \ {key}]

\* TagRegistry.getKeysByTag
GetKeysByTag(reg, t) == IF t \in DOMAIN reg.tagToKeys THEN reg.tagToKeys[t] ELSE {}

\* patterns given to invalidateCache
Patterns == {"/a", "/*", "*/a", "GET|/?"}

\* the number of `*` a pattern starts with
LeadingStars(pattern) ==
    CHOOSE n \in 0..Len(pattern) :
        /\ \A i \in 1..n : SubSeq(pattern, i, i) = "*"
        /\ n < Len(pattern) => SubSeq(pattern, n + 1, n + 1) # "*"

RECURSIVE GlobRegexTest(_, _)
\* new RegExp('^' + escaped pattern with * as .* and ? as . + '$').test(value): every
\* character but * and ? stands for itself once the regex specials are escaped, and a
\* run of `.*` takes any prefix of what is left of the value
GlobRegexTest(pattern, value) ==
    IF pattern = "" THEN value = ""
    ELSE IF Head(pattern) = "*"
         THEN LET rest == SubSeq(pattern, LeadingStars(pattern) + 1, Len(pattern))
              IN  \E n \in 0..Len(value) :
                      GlobRegexTest(rest, SubSeq(value, n + 1, Len(value)))
         ELSE /\ value # ""
              /\ Head(pattern) = "?" \/ Head(pattern) = Head(value)
              /\ GlobRegexTest(SubSeq(pattern, 2, Len(pattern)),
                               SubSeq(value, 2, Len(value)))

\* TagRegistry.getKeysByPattern
GetKeysByPattern(reg, pattern) == {k \in reg.allKeys : GlobRegexTest(pattern, k)}

RECURSIVE UnregisterAll(_, _)
\* unregister called for each key of a set
UnregisterAll(reg, ks) ==
    IF ks = {} THEN reg
    ELSE LET k == CHOOSE x \in ks : TRUE IN UnregisterAll(Unregister(reg, k), ks \ {k})

\* deleteByKey called for each key of a set
CacheDeleteByKeys(ks) ==
    /\ cache' = SelectSeq(cache, LAMBDA e : e.key \notin ks)
    /\ ret' = [NoRet EXCEPT !.op = "deleteByKey"]
    /\ stored' = Restrict(stored, (DOMAIN stored) \ ks)
    /\ touched' = SelectSeq(touched, LAMBDA k : k \notin ks)
    /\ placed' = SelectSeq(placed, LAMBDA k : k \notin ks)
    /\ fifo' = NoFifo
    /\ UNCHANGED <<cfg, stats, tally, now>>

NoClret ==
    [op |-> "none", url |-> "", h |-> "", tag |-> "", pattern |-> "", fromCache |-> FALSE,
     data |-> "", key |-> "", known |-> {}, keys |-> {}]

\* the cache modes in which executeRequest uses the cache
CacheModes == {"standard", "force"}

\* executeRequest.shouldCache for a GET without noCache and forceRevalidate
ShouldCache == client.mode # "off" /\ client.mode # "manual"

InitClient ==
    /\ client \in [vary : BOOLEAN, mode : CacheModes]
    /\ tags = NoTags
    /\ fetching = {}
    /\ storedTags = [k \in {} |-> {}]
    /\ noStoreKeys = {}
    /\ clret = NoClret

IdleClient ==
    /\ client = [vary |-> FALSE, mode |-> "standard"]
    /\ tags = NoTags
    /\ fetching = {}
    /\ storedTags = [k \in {} |-> {}]
    /\ noStoreKeys = {}
    /\ clret = NoClret

\* executeRequest for a cacheable GET (no SWR, no deduplication) up to its return of the
\* cached result or its `await executeCoreRequest`
ClientRequest(url, h, ts) ==
    LET key == GenerateCacheKey(url)
        hit == key \in CacheKeys(cache) /\ ~IsExpired(EntryOf(cache, key), now)
    IN  /\ ShouldCache
        /\ CacheGet(key)
        /\ IF hit
           THEN /\ clret' = [NoClret EXCEPT !.op = "request", !.url = url, !.h = h,
                                            !.fromCache = TRUE,
                                            !.data = EntryOf(cache, key).data]
                /\ UNCHANGED fetching
           ELSE /\ Cardinality(fetching) < MaxClientFetches
                /\ fetching' = fetching \cup {[url |-> url, h |-> h, tags |-> ts]}
                /\ clret' = [NoClret EXCEPT !.op = "request", !.url = url, !.h = h]
        /\ UNCHANGED <<client, tags, storedTags, noStoreKeys>>

\* executeRequest after `await executeCoreRequest`: a success is stored, whatever its
\* Cache-Control header says, and its tags are registered under getCacheKey()
ClientResponse(f, ok, noStore) ==
    LET key == GenerateCacheKey(f.url)
        cacheKey == GetCacheKey(f.url, f.h)
        v == Victim(cache)
    IN  /\ f \in fetching
        /\ fetching' = fetching \ {f}
        /\ clret' = [NoClret EXCEPT !.op = "response", !.url = f.url, !.h = f.h,
                                    !.data = IF ok THEN f.h ELSE ""]
        /\ IF ShouldCache /\ ok
           THEN /\ CacheSet(key, TRUE, f.h, 0)
                /\ noStoreKeys' = (noStoreKeys \ {v, key})
                                      \cup (IF noStore THEN {key} ELSE {})
                /\ tags' = IF cacheKey # "" /\ f.tags # {}
                           THEN Register(tags, cacheKey, f.tags) ELSE tags
                /\ storedTags' = [k \in ((DOMAIN storedTags) \ {v}) \cup {key} |->
                                     IF k = key THEN f.tags ELSE storedTags[k]]
           ELSE UNCHANGED <<cacheVars, now, tags, storedTags, noStoreKeys>>
        /\ UNCHANGED client

\* clearCache
ClientClearCache ==
    /\ CacheClear
    /\ tags' = NoTags
    /\ storedTags' = [k \in {} |-> {}]
    /\ noStoreKeys' = {}
    /\ clret' = [NoClret EXCEPT !.op = "clearCache"]
    /\ UNCHANGED <<client, fetching>>

\* invalidateByTag
ClientInvalidateByTag(t) ==
    LET keysToDelete == GetKeysByTag(tags, t)
    IN  /\ IF keysToDelete = {} THEN UNCHANGED <<cacheVars, now>>
           ELSE CacheDeleteByKeys(keysToDelete)
        /\ tags' = UnregisterAll(tags, keysToDelete)
        /\ storedTags' = Restrict(storedTags, (DOMAIN storedTags) \ keysToDelete)
        /\ noStoreKeys' = noStoreKeys \ keysToDelete
        /\ clret' = [NoClret EXCEPT !.op = "invalidateByTag", !.tag = t]
        /\ UNCHANGED <<client, fetching>>

\* invalidateCache
ClientInvalidateCache(pattern) ==
    LET keysToDelete == GetKeysByPattern(tags, pattern)
        matching == {k \in CacheKeys(cache) : GlobRegexTest(pattern, k)}
        gone == matching \cup keysToDelete
    IN  /\ IF gone = {} THEN UNCHANGED <<cacheVars, now>>
           ELSE CacheDeleteByKeys(gone)
        /\ tags' = UnregisterAll(tags, gone)
        /\ storedTags' = Restrict(storedTags, (DOMAIN storedTags) \ gone)
        /\ noStoreKeys' = noStoreKeys \ gone
        /\ clret' = [NoClret EXCEPT !.op = "invalidateCache", !.pattern = pattern]
        /\ UNCHANGED <<client, fetching>>

NextClient ==
    \/ /\ \E url \in Urls, h \in HeaderValues, ts \in TagSets : ClientRequest(url, h, ts)
       /\ UNCHANGED notClientVars
    \/ /\ \E f \in fetching, ok \in BOOLEAN, noStore \in BOOLEAN : ClientResponse(f, ok, noStore)
       /\ UNCHANGED notClientVars
    \/ /\ ClientClearCache
       /\ UNCHANGED notClientVars
    \/ /\ \E t \in TagNames : ClientInvalidateByTag(t)
       /\ UNCHANGED notClientVars
    \/ /\ \E p \in Patterns : ClientInvalidateCache(p)
       /\ UNCHANGED notClientVars

\* the tags the cached response of key k was stored with
TagsOfEntry(k) == IF k \in DOMAIN storedTags THEN storedTags[k] ELSE {}

\* every key the tag registry holds in any of its three indices
RegistryKeys ==
    tags.allKeys \cup (DOMAIN tags.keyToTags)
        \cup UNION {tags.tagToKeys[t] : t \in DOMAIN tags.tagToKeys}

\* C18: after invalidateByTag(t) no response stored with tag t is left in the LRU cache,
\* the tag registry holds no key under t, and the entries stored without t remain.
C18_InvalidateByTagRemovesTagged ==
    [][\A t \in TagNames :
          (clret'.op = "invalidateByTag" /\ clret'.tag = t) =>
              /\ \A k \in CacheKeys(cache) :
                    IF t \in TagsOfEntry(k) THEN k \notin CacheKeys(cache')
                    ELSE k \in CacheKeys(cache')
              /\ GetKeysByTag(tags', t) = {}]_vars

\* C19: every key held in the tag registry has an entry in the LRU cache.
C19_RegistryKeysAreCached == RegistryKeys \subseteq CacheKeys(cache)

\* C20: with varyHeaders configured, a request answered from the cache gets a response
\* that was stored for a request with the same value of the vary header.
C20_VaryHeaderSeparatesEntries ==
    (client.vary /\ clret.op = "request" /\ clret.fromCache) => clret.data = clret.h

\* C21: after invalidateCache(p) no entry whose request URL matches the glob p is left in
\* the cache, and the entries whose URL does not match p remain.
C21_InvalidateCacheRemovesMatchingUrls ==
    [][\A p \in Patterns :
          (clret'.op = "invalidateCache" /\ clret'.pattern = p) =>
              \A url \in Urls :
                  GenerateCacheKey(url) \in CacheKeys(cache) =>
                      IF GlobRegexTest(p, url)
                      THEN GenerateCacheKey(url) \notin CacheKeys(cache')
                      ELSE GenerateCacheKey(url) \in CacheKeys(cache')]_vars

\* C22: in 'standard' and 'force' mode no response whose Cache-Control header contains
\* no-store is written to the cache, so none is served from the cache to a later request.
C22_NoStoreResponseNeverCached ==
    /\ noStoreKeys \cap CacheKeys(cache) = {}
    /\ (clret.op = "request" /\ clret.fromCache) =>
           GenerateCacheKey(clret.url) \notin noStoreKeys

\* C33: the response of a request that was in flight when clearCache() was called is
\* not written into the cache: a response that arrives right after clearCache() (its
\* request was in flight during the call, which leaves the requests in flight alone)
\* leaves the cache empty.
C33_InFlightResponseNotStoredAfterClear ==
    [][(clret.op = "clearCache" /\ clret'.op = "response") =>
          CacheKeys(cache') = {} /\ tags' = NoTags]_vars

(***************************************************************************)
(* calculateBackoff                                                        *)
(***************************************************************************)
MaxBackoffAttempt == 4  \* attempts 0..MaxBackoffAttempt
RandomSteps == 4        \* Math.random() draws k / RandomSteps, k in 0..RandomSteps - 1

BaseDelays == {0, 1, 1000}
MaxDelays == {1000, 5000, 30000}
JitterPercents == {0, 10, 50, 100, 200}     \* the jitter factor, in hundredths

Min(a, b) == IF a <= b THEN a ELSE b

ExponentialDelayUncapped(exponentialDelay, maxDelay) == exponentialDelay

\* `Math.min(exponentialDelay, maxDelay)`
CappedDelay(exponentialDelay, maxDelay) == Min(exponentialDelay, maxDelay)

\* Math.round of the fraction num / den (den > 0): the nearest integer, halves upwards
MathRound(num, den) == (2 * num + den) \div (2 * den)

\* calculateBackoff, Math.random() having returned k / RandomSteps
CalculateBackoff(attempt, baseDelay, maxDelay, jitterPct, k) ==
    LET exponentialDelay == baseDelay * 2 ^ attempt
        cappedDelay == CappedDelay(exponentialDelay, maxDelay)
        \* jitterRange = cappedDelay * jitterPct / 100
        \* jitterOffset = ((2k - RandomSteps) / RandomSteps) * jitterRange
        den == 100 * RandomSteps
        num == cappedDelay * den + (2 * k - RandomSteps) * cappedDelay * jitterPct
    IN  MathRound(num, den)

InitBackoff ==
    bo \in [attempt : 0..MaxBackoffAttempt, baseDelay : BaseDelays, maxDelay : MaxDelays,
            jitter : JitterPercents, random : {0}, delay : {0}, done : {FALSE}]

IdleBackoff ==
    bo = [attempt |-> 0, baseDelay |-> 1000, maxDelay |-> 30000, jitter |-> 10,
          random |-> 0, delay |-> 0, done |-> FALSE]


\* a call of calculateBackoff with the arguments held in bo
BackoffCall(k) ==
    /\ bo' = [bo EXCEPT !.random = k, !.done = TRUE,
                        !.delay = CalculateBackoff(bo.attempt, bo.baseDelay, bo.maxDelay,
                                                   bo.jitter, k)]
    /\ UNCHANGED pm

\* RetryStrategy.execute moving to its next attempt: `attempt += 1`
BackoffNextAttempt ==
    /\ bo.done /\ bo.attempt < MaxBackoffAttempt
    /\ bo' = [bo EXCEPT !.attempt = @ + 1, !.done = FALSE, !.random = 0, !.delay = 0]
    /\ UNCHANGED pm

NextBackoff ==
    \/ /\ \E k \in 0..(RandomSteps - 1) : BackoffCall(k)
       /\ UNCHANGED notFunctionVars
    \/ /\ BackoffNextAttempt
       /\ UNCHANGED notFunctionVars

(***************************************************************************)
(* Properties of calculateBackoff                                          *)
(***************************************************************************)
\* min(baseDelay * 2^attempt, maxDelay)
Clamped(attempt, baseDelay, maxDelay) == Min(baseDelay * 2 ^ attempt, maxDelay)

\* C24: with jitter 0 the delay equals min(baseDelay * 2^attempt, maxDelay): it does not
\* depend on the random draw, does not decrease with attempt and is never above maxDelay.
C24_ZeroJitterBackoffIsClampedExponential ==
    (bo.done /\ bo.jitter = 0) =>
        /\ bo.delay = Clamped(bo.attempt, bo.baseDelay, bo.maxDelay)
        /\ \A k \in 0..(RandomSteps - 1) :
              CalculateBackoff(bo.attempt, bo.baseDelay, bo.maxDelay, 0, k) = bo.delay
        /\ CalculateBackoff(bo.attempt + 1, bo.baseDelay, bo.maxDelay, 0, bo.random)
              >= bo.delay
        /\ bo.delay <= bo.maxDelay
        /\ (bo.baseDelay = 1000 /\ bo.maxDelay = 30000 /\ bo.attempt <= 3) =>
              bo.delay = <<1000, 2000, 4000, 8000>>[bo.attempt + 1]

C24_Witness ==
    /\ bo.done /\ bo.jitter = 0 /\ bo.random > 0
    /\ bo.baseDelay = 1000 /\ bo.maxDelay = 5000 /\ bo.attempt = 3 /\ bo.delay = 5000

\* C25: for every attempt, baseDelay, maxDelay and jitter factor the delay is an integer
\* that is not negative and lies between clamped - jitter * clamped and
\* clamped + jitter * clamped.
C25_BackoffWithinJitterRangeAndNotNegative ==
    bo.done =>
        LET clamped == Clamped(bo.attempt, bo.baseDelay, bo.maxDelay)
        IN  /\ bo.delay >= 0
            /\ 100 * bo.delay >= 100 * clamped - bo.jitter * clamped - 50
            /\ 100 * bo.delay <= 100 * clamped + bo.jitter * clamped + 50

(***************************************************************************)
(* matchGlobPattern                                                        *)
(***************************************************************************)
MaxPatternLen == 3      \* patterns enumerated up to this length
MaxValueLen == 3        \* values enumerated up to this length
MAX_PATTERN_LENGTH == 100
MAX_RECURSION_DEPTH == 100

PatternChars == {"a", "b", "*", "?"}
ValueChars == {"a", "b"}

RECURSIVE StringsUpTo(_, _)
\* the strings over chars of length n or less
StringsUpTo(chars, n) ==
    IF n = 0 THEN {""}
    ELSE LET shorter == StringsUpTo(chars, n - 1)
         IN  shorter \cup {x \o c : x \in shorter, c \in chars}

RECURSIVE Repeat(_, _)
Repeat(str, n) == IF n = 0 THEN "" ELSE str \o Repeat(str, n - 1)

\* longer inputs: 20 groups of stars, a pattern of 100 characters, one of 101 characters
LongPattern == Repeat("*a", 20)
HundredPattern == Repeat("a", 99) \o "*"
TooLongPattern == Repeat("a", 100) \o "*"
LongValue == Repeat("a", 20)

\* pattern[i] and value[i], indices from 0
CharAt(str, i) == SubSeq(str, i + 1, i + 1)

\* pattern.includes(c)
Includes(str, c) == \E i \in 0..(Len(str) - 1) : CharAt(str, i) = c

LiteralNeverMismatches(pChar, vChar) == FALSE

\* `if (pChar !== value[vIdx]) return false`
LiteralMismatch(pChar, vChar) == pChar # vChar

RECURSIVE SkipStars(_, _)
\* `while (pIdx < pLen && pattern[pIdx] === '*') pIdx++`
SkipStars(pattern, pIdx) ==
    IF pIdx < Len(pattern) /\ CharAt(pattern, pIdx) = "*"
    THEN SkipStars(pattern, pIdx + 1)
    ELSE pIdx

RECURSIVE MatchRecursive(_, _, _, _, _)
RECURSIVE TryLengths(_, _, _, _, _)

\* `while (vIdx <= vLen) { if (matchRecursive(..., vIdx, depth + 1)) return true; vIdx++ }`
TryLengths(pattern, pIdx, value, vIdx, depth) ==
    IF vIdx > Len(value) THEN FALSE
    ELSE IF MatchRecursive(pattern, pIdx, value, vIdx, depth + 1) THEN TRUE
    ELSE TryLengths(pattern, pIdx, value, vIdx + 1, depth)

\* matchRecursive; a turn of its main loop is the call with both indices advanced
MatchRecursive(pattern, pIdx, value, vIdx, depth) ==
    IF depth >= MAX_RECURSION_DEPTH THEN FALSE
    ELSE IF pIdx < Len(pattern) /\ vIdx < Len(value)
    THEN IF CharAt(pattern, pIdx) = "*"
         THEN LET next == SkipStars(pattern, pIdx)
              IN  IF next = Len(pattern) THEN TRUE
                  ELSE TryLengths(pattern, next, value, vIdx, depth)
         ELSE IF CharAt(pattern, pIdx) = "?"
         THEN MatchRecursive(pattern, pIdx + 1, value, vIdx + 1, depth)
         ELSE IF LiteralMismatch(CharAt(pattern, pIdx), CharAt(value, vIdx)) THEN FALSE
         ELSE MatchRecursive(pattern, pIdx + 1, value, vIdx + 1, depth)
    ELSE SkipStars(pattern, pIdx) = Len(pattern) /\ vIdx = Len(value)

\* matchGlobPattern
MatchGlobPattern(pattern, value) ==
    IF Len(pattern) > MAX_PATTERN_LENGTH THEN FALSE
    ELSE IF ~Includes(pattern, "*") /\ ~Includes(pattern, "?") THEN pattern = value
    ELSE MatchRecursive(pattern, 0, value, 0, 0)

NoPm == [pattern |-> "", value |-> "", result |-> FALSE, done |-> FALSE]

InitPattern ==
    \E p \in StringsUpTo(PatternChars, MaxPatternLen)
                \cup {LongPattern, HundredPattern, TooLongPattern},
       v \in StringsUpTo(ValueChars, MaxValueLen) \cup {LongValue} :
        pm = [NoPm EXCEPT !.pattern = p, !.value = v]

IdlePattern == pm = NoPm

IdleFunctions == IdleBackoff /\ IdlePattern

\* a call of matchGlobPattern with the arguments held in pm
PatternCall ==
    /\ ~pm.done
    /\ pm' = [pm EXCEPT !.done = TRUE, !.result = MatchGlobPattern(pm.pattern, pm.value)]
    /\ UNCHANGED bo

NextPattern ==
    \/ /\ PatternCall
       /\ UNCHANGED notFunctionVars

(***************************************************************************)
(* Properties of matchGlobPattern                                          *)
(***************************************************************************)
RECURSIVE GlobMatches(_, _)
\* glob semantics: the whole value matches the whole pattern, '*' standing for any run of
\* zero or more characters, '?' for exactly one character, any other character for itself
GlobMatches(pattern, value) ==
    IF pattern = "" THEN value = ""
    ELSE LET first == SubSeq(pattern, 1, 1)
             rest == SubSeq(pattern, 2, Len(pattern))
         IN  IF first = "*"
             THEN \E n \in 0..Len(value) : GlobMatches(rest, SubSeq(value, n + 1, Len(value)))
             ELSE /\ value # ""
                  /\ first = "?" \/ first = SubSeq(value, 1, 1)
                  /\ GlobMatches(rest, SubSeq(value, 2, Len(value)))

\* C26: for a pattern of at most 100 characters matchGlobPattern answers true exactly when
\* the whole value matches the whole pattern under glob semantics.
C26_MatchGlobPatternIsGlobMatch ==
    (pm.done /\ Len(pm.pattern) <= MAX_PATTERN_LENGTH) =>
        (pm.result <=> GlobMatches(pm.pattern, pm.value))

C26_Witness ==
    /\ pm.done /\ pm.result
    /\ Includes(pm.pattern, "*") /\ Includes(pm.pattern, "?")
    /\ Len(pm.value) = MaxValueLen

(***************************************************************************)
(* Tag registry                                                            *)
(***************************************************************************)
\* keys and tag arrays given to the registry, and patterns given to getKeysByPattern
RegistryKeyNames == {"GET|/a", "GET|/b", "GET|/ab"}
TagArrays == SUBSET TagNames
ManyStars == Repeat("*", MAX_PATTERN_LENGTH + 1)
RegistryPatterns == Patterns \cup {"*", "GET|/a*", ManyStars}

\* register
RegistryRegister(key, ts) ==
    /\ tags' = Register(tags, key, ts)
    /\ clret' = [NoClret EXCEPT !.op = "register", !.key = key, !.known = tags.allKeys]

\* unregister
RegistryUnregister(key) ==
    /\ tags' = Unregister(tags, key)
    /\ clret' = [NoClret EXCEPT !.op = "unregister", !.key = key, !.known = tags.allKeys]

\* clear
RegistryClear ==
    /\ tags' = NoTags
    /\ clret' = [NoClret EXCEPT !.op = "clear", !.known = tags.allKeys]

\* getKeysByPattern
RegistryGetKeysByPattern(pattern) ==
    /\ clret' = [NoClret EXCEPT !.op = "getKeysByPattern", !.pattern = pattern,
                                !.known = tags.allKeys,
                                !.keys = GetKeysByPattern(tags, pattern)]
    /\ UNCHANGED tags

NextRegistry ==
    \/ /\ \E key \in RegistryKeyNames, ts \in TagArrays : RegistryRegister(key, ts)
       /\ UNCHANGED <<now, cacheVars, client, fetching, storedTags, noStoreKeys, notClientVars>>
    \/ /\ \E key \in RegistryKeyNames : RegistryUnregister(key)
       /\ UNCHANGED <<now, cacheVars, client, fetching, storedTags, noStoreKeys, notClientVars>>
    \/ /\ RegistryClear
       /\ UNCHANGED <<now, cacheVars, client, fetching, storedTags, noStoreKeys, notClientVars>>
    \/ /\ \E p \in RegistryPatterns : RegistryGetKeysByPattern(p)
       /\ UNCHANGED <<now, cacheVars, client, fetching, storedTags, noStoreKeys, notClientVars>>

(***************************************************************************)
(* Properties of the tag registry                                          *)
(***************************************************************************)
\* the keys and the tags the registry's indices mention
IndexedKeys == (DOMAIN tags.keyToTags) \cup UNION {tags.tagToKeys[t] : t \in DOMAIN tags.tagToKeys}
IndexedTags == (DOMAIN tags.tagToKeys) \cup UNION {tags.keyToTags[k] : k \in DOMAIN tags.keyToTags}

\* C35: the two indices of the tag registry agree (k is in tag t's key-set iff t is in
\* k's tag-set), no tag maps to an empty key-set, and the known keys are exactly the
\* keys with at least one tag.
C35_RegistryIndicesAgree ==
    /\ \A k \in IndexedKeys, t \in IndexedTags :
           (t \in DOMAIN tags.tagToKeys /\ k \in tags.tagToKeys[t])
               <=> (k \in DOMAIN tags.keyToTags /\ t \in tags.keyToTags[k])
    /\ \A t \in DOMAIN tags.tagToKeys : tags.tagToKeys[t] # {}
    /\ tags.allKeys = {k \in DOMAIN tags.keyToTags : tags.keyToTags[k] # {}}
    /\ tags.allKeys = IndexedKeys

\* C35 witness: unregister has just removed a key that had two tags; one of the tags had
\* no other key and is gone, the other is still held by another key
C35_Witness ==
    /\ clret.op = "unregister" /\ clret.key \in clret.known
    /\ clret.key \notin tags.allKeys
    /\ DOMAIN tags.tagToKeys = {"t"}
    /\ tags.allKeys # {}

\* C36: getKeysByPattern(pattern) returns exactly the registered keys k for which
\* matchGlobPattern(pattern, k) is true.
C36_KeysByPatternAreGlobMatches ==
    clret.op = "getKeysByPattern" =>
        clret.keys = {k \in tags.allKeys : MatchGlobPattern(clret.pattern, k)}

(***************************************************************************)
(* Specifications                                                          *)
(***************************************************************************)
\* one entry and no stale window (the default), or two entries and a stale window
InitCache == InitCacheWith({1}, {0}) \/ InitCacheWith({2}, {1})
IdleCache == InitCacheWith({1}, {0})
InitLru == InitCacheWith({1, 2, 3}, {1})
InitSwrCache == InitCacheWith({1}, {1})
InitClientCache == InitCacheWith({1, 2}, {0})

NextCache ==
    \/ /\ Tick
       /\ UNCHANGED <<cacheVars, notCacheVars>>
    \/ /\ \E k \in Keys : CacheGet(k)
       /\ UNCHANGED notCacheVars
    \/ /\ \E k \in Keys, ok \in BOOLEAN, opt \in TtlOptions : CacheSet(k, ok, "b1", opt)
       /\ UNCHANGED notCacheVars
    \/ /\ \E k \in Keys : CacheDelete(k)
       /\ UNCHANGED notCacheVars
    \/ /\ CacheClear
       /\ UNCHANGED notCacheVars
    \/ /\ \E k \in Keys : CacheHas(k)
       /\ UNCHANGED notCacheVars
    \/ /\ \E k \in Keys : CacheIsStale(k)
       /\ UNCHANGED notCacheVars

\* keys of a configured keyGenerator, which may return the empty string
GeneratedKeys == {"", "GET|/a", "GET|/b"}

\* The cache's operations under a configured keyGenerator
NextKeyGen ==
    \/ /\ \E k \in GeneratedKeys : CacheGet(k)
       /\ UNCHANGED notCacheVars
    \/ /\ \E k \in GeneratedKeys : CacheSet(k, TRUE, "b1", 0)
       /\ UNCHANGED notCacheVars
    \/ /\ \E k \in GeneratedKeys : CacheDelete(k)
       /\ UNCHANGED notCacheVars
    \/ /\ CacheClear
       /\ UNCHANGED notCacheVars

\* The cache's read operations among gets and sets, as time passes
NextReads ==
    \/ /\ Tick
       /\ UNCHANGED <<cacheVars, notCacheVars>>
    \/ /\ \E k \in Keys : CacheGet(k)
       /\ UNCHANGED notCacheVars
    \/ /\ \E k \in Keys : CacheSet(k, TRUE, "b1", 0)
       /\ UNCHANGED notCacheVars
    \/ /\ \E k \in Keys : CacheHas(k)
       /\ UNCHANGED notCacheVars
    \/ /\ \E k \in Keys : CacheIsStale(k)
       /\ UNCHANGED notCacheVars
    \/ /\ CacheGetKeys
       /\ UNCHANGED notCacheVars
    \/ /\ CacheGetStats
       /\ UNCHANGED notCacheVars

\* The cache's operations on four keys at one instant: recency order and eviction
NextLru ==
    \/ /\ \E k \in LruKeys : CacheGet(k)
       /\ UNCHANGED notCacheVars
    \/ /\ \E k \in LruKeys : CacheSet(k, TRUE, "b1", 0)
       /\ UNCHANGED notCacheVars
    \/ /\ \E k \in LruKeys : CacheDelete(k)
       /\ UNCHANGED notCacheVars
    \/ /\ CacheClear
       /\ UNCHANGED notCacheVars

StartCache == now = 0 /\ InitCache /\ InitDedup /\ IdleBreaker /\ InitSwr /\ IdleStrategy /\ IdleWithRetry /\ IdleClient /\ IdleFunctions
SpecCache == StartCache /\ [][NextCache]_vars
StartDedup == now = 0 /\ IdleCache /\ InitDedup /\ IdleBreaker /\ InitSwr /\ IdleStrategy /\ IdleWithRetry /\ IdleClient /\ IdleFunctions
SpecDedup == StartDedup /\ [][NextDedup]_vars
StartLru == now = 0 /\ InitLru /\ InitDedup /\ IdleBreaker /\ InitSwr /\ IdleStrategy /\ IdleWithRetry /\ IdleClient /\ IdleFunctions
SpecLru == StartLru /\ [][NextLru]_vars
StartKeyGen == now = 0 /\ InitCache /\ InitDedup /\ IdleBreaker /\ InitSwr /\ IdleStrategy /\ IdleWithRetry /\ IdleClient /\ IdleFunctions
SpecKeyGen == StartKeyGen /\ [][NextKeyGen]_vars
StartReads == now = 0 /\ InitCache /\ InitDedup /\ IdleBreaker /\ InitSwr /\ IdleStrategy /\ IdleWithRetry /\ IdleClient /\ IdleFunctions
SpecReads == StartReads /\ [][NextReads]_vars
StartBreaker == now = 0 /\ IdleCache /\ InitDedup /\ InitBreaker /\ InitSwr /\ IdleStrategy /\ IdleWithRetry /\ IdleClient /\ IdleFunctions
SpecBreaker == StartBreaker /\ [][NextBreaker]_vars
StartSwr == now = 0 /\ InitSwrCache /\ InitDedup /\ IdleBreaker /\ InitSwr /\ IdleStrategy /\ IdleWithRetry /\ IdleClient /\ IdleFunctions
SpecSwr == StartSwr /\ [][NextSwr]_vars
\* every background revalidate() call settles, and its callbacks run
BackgroundFairness ==
    \A k \in Keys : WF_vars((\E o \in Outcomes : BackgroundSettles(k, o)) /\ UNCHANGED notSwrVars)
\* The SWR cache alone, over a cache that is cleared now and then
NextRevalidation ==
    \/ /\ Tick
       /\ UNCHANGED <<cacheVars, swrVars, notSwrVars>>
    \/ /\ \E k \in Keys : GetWithRevalidation(k)
       /\ UNCHANGED notSwrVars
    \/ /\ \E k \in Keys, o \in Outcomes : ForegroundSettles(k, o)
       /\ UNCHANGED notSwrVars
    \/ /\ \E k \in Keys, o \in Outcomes : BackgroundSettles(k, o)
       /\ UNCHANGED notSwrVars
    \/ /\ CacheClear
       /\ UNCHANGED <<swrVars, notSwrVars>>
SpecSwrFair == StartSwr /\ [][NextRevalidation]_vars /\ BackgroundFairness
StartStrategy == now = 0 /\ IdleCache /\ InitDedup /\ IdleBreaker /\ InitSwr /\ InitStrategy /\ IdleWithRetry /\ IdleClient /\ IdleFunctions
SpecStrategy == StartStrategy /\ [][NextStrategy]_vars
StartWithRetry ==
    now = 0 /\ IdleCache /\ InitDedup /\ IdleBreaker /\ InitSwr /\ IdleStrategy /\ InitWithRetry
    /\ IdleClient /\ IdleFunctions
SpecWithRetry == StartWithRetry /\ [][NextWithRetry]_vars
StartClient ==
    /\ now = 0 /\ InitClientCache /\ InitDedup /\ IdleBreaker /\ InitSwr /\ IdleStrategy
    /\ IdleWithRetry /\ InitClient /\ IdleFunctions
SpecClient == StartClient /\ [][NextClient]_vars
StartBackoff ==
    /\ now = 0 /\ IdleCache /\ InitDedup /\ IdleBreaker /\ InitSwr /\ IdleStrategy
    /\ IdleWithRetry /\ IdleClient /\ InitBackoff /\ IdlePattern
SpecBackoff == StartBackoff /\ [][NextBackoff]_vars
StartPattern ==
    /\ now = 0 /\ IdleCache /\ InitDedup /\ IdleBreaker /\ InitSwr /\ IdleStrategy
    /\ IdleWithRetry /\ IdleClient /\ IdleBackoff /\ InitPattern
SpecPattern == StartPattern /\ [][NextPattern]_vars
StartRegistry ==
    /\ now = 0 /\ IdleCache /\ InitDedup /\ IdleBreaker /\ InitSwr /\ IdleStrategy
    /\ IdleWithRetry /\ IdleClient /\ IdleFunctions
SpecRegistry == StartRegistry /\ [][NextRegistry]_vars

====
